---- MODULE Spec2Model ----
(***************************************************************************)
(* Model of ngx-flagr's canMatchFeatureFlag route guard                    *)
(* (projects/core/src/feature-flag.can-match.guard.ts).                    *)
(*                                                                         *)
(* The guard is one synchronous function.  It reads the injected           *)
(* configuration and the route's data bag, may call the flag service's     *)
(* isEnabled and the router's parseUrl, and returns a boolean, a UrlTree,  *)
(* a Promise or an Observable, or throws.  A returned Promise/Observable   *)
(* carries the continuation the guard attached; the flag service settles   *)
(* it later, in steps that interleave with other navigation attempts.      *)
(***************************************************************************)
EXTENDS Naturals, Sequences, FiniteSets, TLC

\* ------------------------------------------------------------------ bounds
\* Navigation attempts the host router may have in flight at once.
MaxConcurrent == 2
\* Values a flag-service Observable may emit before it completes.
MaxEmissions == 1

Invocations == 1..MaxConcurrent

\* ------------------------------------------------------- JavaScript values
Undefined == [t |-> "undefined"]
Null == [t |-> "null"]
Bool(b) == [t |-> "boolean", b |-> b]
Num(n) == [t |-> "number", n |-> n]
Str(s) == [t |-> "string", s |-> s]

\* JavaScript truthiness, as tested by `!x` and `x || y`.
Truthy(v) ==
  CASE v.t = "undefined" -> FALSE
    [] v.t = "null" -> FALSE
    [] v.t = "boolean" -> v.b
    [] v.t = "number" -> v.n # 0
    [] v.t = "string" -> v.s # ""
    [] OTHER -> TRUE

\* `x || y`
OrElse(x, y) == IF Truthy(x) THEN x ELSE y

\* String conversion of a value interpolated in a template literal.
JSString(v) ==
  CASE v.t = "undefined" -> "undefined"
    [] v.t = "null" -> "null"
    [] v.t = "boolean" -> IF v.b THEN "true" ELSE "false"
    [] v.t = "number" -> IF v.n = 0 THEN "0" ELSE "1"
    [] v.t = "string" -> v.s
    [] OTHER -> "[object Object]"

\* `typeof x === 'boolean'`, `x instanceof Promise`, `x instanceof Observable`
IsBoolean(v) == v.t = "boolean"
IsPromise(v) == v.t = "Promise"
IsObservable(v) == v.t = "Observable"

\* --------------------------------------------------------- collaborators
\* The recognised flag names (./feature-flag, isFeatureFlag).
FeatureFlags == {"beta"}
isFeatureFlag(v) == v.t = "string" /\ v.s \in FeatureFlags

\* Router.parseUrl: the target string parsed into a UrlTree of path segments.
Segments(url) ==
  CASE url = "/upgrade" -> <<"upgrade">>
    [] url = "/home" -> <<"home">>
    [] OTHER -> <<>>
parseUrl(target) == [t |-> "UrlTree", segments |-> Segments(target.s)]

\* What FeatureFlagService.isEnabled may hand back: a boolean, a Promise, an
\* Observable, or (a defect of the service) some other shape.  A Promise or
\* Observable carries the continuations attached to it so far.
ServicePromise == [t |-> "Promise", then |-> <<>>]
ServiceObservable == [t |-> "Observable", then |-> <<>>]
ServiceResults ==
  {Bool(TRUE), Bool(FALSE), ServicePromise, ServiceObservable, Str("on"), Undefined}

\* ------------------------------------------------------------ route, config
KeyFeatureFlag == "featureFlag"
KeyRedirect == "redirectToIfDisabled"

FlagValues ==
  {Undefined, Str(""), Bool(FALSE), Num(0), Null, Str("beta"), Str("xyz"), Bool(TRUE)}
RouteRedirectValues == {Undefined, Str(""), Str("/upgrade")}
ConfigRedirectValues == {Undefined, Str(""), Str("/home")}

DataBags ==
  {[k \in {KeyFeatureFlag, KeyRedirect} |->
      IF k = KeyFeatureFlag THEN f ELSE r] :
     f \in FlagValues, r \in RouteRedirectValues}

Routes == {[path |-> "admin", data |-> d] : d \in DataBags \cup {Undefined}}

Configurations ==
  {[routing |->
      [keys |-> [featureFlag |-> KeyFeatureFlag, redirectToIfDisabled |-> KeyRedirect],
       validIfNone |-> v,
       redirectToIfDisabled |-> r]] :
     v \in BOOLEAN, r \in ConfigRedirectValues}

\* `route.data?.[key]`
DataAt(r, key) == IF r.data = Undefined THEN Undefined ELSE r.data[key]


\* ------------------------------------------------------------------- state
VARIABLES
  route,      \* the Route the host router is matching
  config,     \* the injected CONFIGURATION
  devMode,    \* isDevMode()
  pc,         \* per navigation attempt: idle, returned, threw, pending, completed
  service,    \* what the flag service's isEnabled answers in this attempt
  outcome,    \* what the guard returned or threw
  effects,    \* the guard's console output and collaborator calls, in order
  emitted,    \* the values the flag service's Promise/Observable produced
  delivered   \* the values the guard's returned Promise/Observable produced

vars == <<route, config, devMode, pc, service, outcome, effects, emitted, delivered>>

\* ------------------------------------------------------------ the guard
Return(v) == [kind |-> "return", value |-> v]
Throw(parts) == [kind |-> "throw", message |-> parts]
NoOutcome == [kind |-> "none"]

Warn(parts) == [fn |-> "console.warn", text |-> parts]
CallIsEnabled(flag) == [fn |-> "isEnabled", flag |-> flag]
CallParseUrl(target) == [fn |-> "parseUrl", url |-> target]

MissingFlagMessage(r) ==
  <<"Route ", r.path, " does not have a feature flag specified">>
InvalidFlagMessage(r, featureFlag) ==
  <<"Route ", r.path, " has an invalid feature flag: ", JSString(featureFlag)>>
\* (the source quotes the method name in backticks)
UnhandledMessage == <<"Unhandled return type of FeatureFlagService#isEnabled">>

\* `p.then(result => result || redirectTo)` and
\* `o.pipe(map(result => result || redirectTo))`: a new Promise/Observable with
\* the continuation attached.
Attach(source, redirectTo) ==
  [source EXCEPT !.then = Append(@, [orElse |-> redirectTo])]

RECURSIVE RunContinuations(_, _)
\* The value a Promise/Observable produces when its source produces `v`.
RunContinuations(chain, v) ==
  IF chain = <<>> THEN v
  ELSE RunContinuations(Tail(chain), OrElse(v, Head(chain).orElse))

\* `if (!featureFlag) { ... return validIfNone; }`: the warning in a
\* development build when validIfNone is false, then validIfNone itself.
NoFeatureFlagWarnsAlways(r, routing, dev) ==
  [outcome |-> Return(Bool(routing.validIfNone)),
   effects |-> <<Warn(MissingFlagMessage(r))>>]
NoFeatureFlagAllows(r, routing, dev) ==
  [outcome |-> Return(Bool(TRUE)),
   effects |-> IF dev /\ ~routing.validIfNone
               THEN <<Warn(MissingFlagMessage(r))>>
               ELSE <<>>]
NoFeatureFlag(r, routing, dev) ==
  LET validIfNone == routing.validIfNone IN
  [outcome |-> Return(Bool(validIfNone)),
   effects |-> IF dev /\ ~validIfNone
               THEN <<Warn(MissingFlagMessage(r))>>
               ELSE <<>>]

\* `if (!isFeatureFlag(featureFlag)) { throw new Error(...) }`
InvalidFeatureFlagUnnamed(r, featureFlag) ==
  [outcome |-> Throw(<<"Route ", r.path, " has an invalid feature flag">>),
   effects |-> <<>>]
InvalidFeatureFlag(r, featureFlag) ==
  [outcome |-> Throw(InvalidFlagMessage(r, featureFlag)), effects |-> <<>>]

\* `route.data?.[keys.redirectToIfDisabled] || routing.redirectToIfDisabled`
RedirectToIfDisabledConfigFirst(r, routing) ==
  OrElse(routing.redirectToIfDisabled, DataAt(r, routing.keys.redirectToIfDisabled))
RedirectToIfDisabledOrRoot(r, routing) ==
  OrElse(OrElse(DataAt(r, routing.keys.redirectToIfDisabled),
                routing.redirectToIfDisabled),
         Str("/"))
RedirectToIfDisabled(r, routing) ==
  OrElse(DataAt(r, routing.keys.redirectToIfDisabled), routing.redirectToIfDisabled)

\* The rest of the guard once a redirect target is known: parseUrl, then the
\* substitution by the shape of isEnabled's result.  `before` are the effects
\* so far.
WithRedirectUnmappedPromise(isEnabled, redirectToIfDisabled, before) ==
  LET redirectTo == parseUrl(redirectToIfDisabled)
      after == Append(before, CallParseUrl(redirectToIfDisabled))
  IN
  IF IsBoolean(isEnabled) THEN
    [outcome |-> Return(OrElse(isEnabled, redirectTo)), effects |-> after]
  ELSE IF IsPromise(isEnabled) THEN
    [outcome |-> Return(isEnabled), effects |-> after]
  ELSE IF IsObservable(isEnabled) THEN
    [outcome |-> Return(Attach(isEnabled, redirectTo)), effects |-> after]
  ELSE
    [outcome |-> Throw(UnhandledMessage), effects |-> after]
WithRedirectLazyParse(isEnabled, redirectToIfDisabled, before) ==
  LET redirectTo == parseUrl(redirectToIfDisabled)
      after == Append(before, CallParseUrl(redirectToIfDisabled))
  IN
  IF IsBoolean(isEnabled) THEN
    [outcome |-> Return(OrElse(isEnabled, redirectTo)),
     effects |-> IF Truthy(isEnabled) THEN before ELSE after]
  ELSE IF IsPromise(isEnabled) THEN
    [outcome |-> Return(Attach(isEnabled, redirectTo)), effects |-> after]
  ELSE IF IsObservable(isEnabled) THEN
    [outcome |-> Return(Attach(isEnabled, redirectTo)), effects |-> after]
  ELSE
    [outcome |-> Throw(UnhandledMessage), effects |-> before]
WithRedirect(isEnabled, redirectToIfDisabled, before) ==
  LET redirectTo == parseUrl(redirectToIfDisabled)
      after == Append(before, CallParseUrl(redirectToIfDisabled))
  IN
  IF IsBoolean(isEnabled) THEN
    [outcome |-> Return(OrElse(isEnabled, redirectTo)), effects |-> after]
  ELSE IF IsPromise(isEnabled) THEN
    [outcome |-> Return(Attach(isEnabled, redirectTo)), effects |-> after]
  ELSE IF IsObservable(isEnabled) THEN
    [outcome |-> Return(Attach(isEnabled, redirectTo)), effects |-> after]
  ELSE
    [outcome |-> Throw(UnhandledMessage), effects |-> after]

\* canMatchFeatureFlag(route), with the injected configuration, build mode
\* and flag-service answer made explicit.  The result is what the call
\* returned or threw, and the effects it had on the way.
canMatchFeatureFlag(r, cfg, dev, svc) ==
  LET routing == cfg.routing
      keys == routing.keys
      featureFlag == DataAt(r, keys.featureFlag)
  IN
  IF ~Truthy(featureFlag) THEN
    NoFeatureFlag(r, routing, dev)
  ELSE IF ~isFeatureFlag(featureFlag) THEN
    InvalidFeatureFlag(r, featureFlag)
  ELSE
    LET isEnabled == svc
        afterIsEnabled == <<CallIsEnabled(featureFlag)>>
        redirectToIfDisabled == RedirectToIfDisabled(r, routing)
    IN
    IF ~Truthy(redirectToIfDisabled) THEN
      [outcome |-> Return(isEnabled), effects |-> afterIsEnabled]
    ELSE
      WithRedirect(isEnabled, redirectToIfDisabled, afterIsEnabled)

\* --------------------------------------------------------------- actions
Init ==
  /\ route \in Routes
  /\ config \in Configurations
  /\ devMode \in BOOLEAN
  /\ pc = [i \in Invocations |-> "idle"]
  /\ service = [i \in Invocations |-> Undefined]
  /\ outcome = [i \in Invocations |-> NoOutcome]
  /\ effects = [i \in Invocations |-> <<>>]
  /\ emitted = [i \in Invocations |-> <<>>]
  /\ delivered = [i \in Invocations |-> <<>>]

\* Where the call leaves the navigation attempt.
AfterCall(o) ==
  IF o.kind = "throw" THEN "threw"
  ELSE IF IsPromise(o.value) \/ IsObservable(o.value) THEN "pending"
  ELSE "returned"

\* Variants of the call: one that writes the redirect target it resolved back
\* into the route's data bag, and one that keeps the flag service's answer in
\* a variable shared by the navigation attempts in flight.
CanMatchWritesRoute(i) ==
  /\ pc[i] = "idle"
  /\ \E svc \in ServiceResults :
       LET res == canMatchFeatureFlag(route, config, devMode, svc) IN
       /\ service' = [service EXCEPT ![i] = svc]
       /\ outcome' = [outcome EXCEPT ![i] = res.outcome]
       /\ effects' = [effects EXCEPT ![i] = res.effects]
       /\ pc' = [pc EXCEPT ![i] = AfterCall(res.outcome)]
  /\ route' =
       IF route.data = Undefined THEN route
       ELSE [route EXCEPT !.data[config.routing.keys.redirectToIfDisabled] =
               RedirectToIfDisabled(route, config.routing)]
  /\ UNCHANGED <<config, devMode, emitted, delivered>>
CanMatchSharedAnswer(i) ==
  /\ pc[i] = "idle"
  /\ \E svc \in ServiceResults :
       LET held == {j \in Invocations : pc[j] # "idle"}
           seen == IF held = {} THEN svc
                   ELSE service[CHOOSE j \in held : \A k \in held : j <= k]
           res == canMatchFeatureFlag(route, config, devMode, seen)
       IN
       /\ service' = [service EXCEPT ![i] = svc]
       /\ outcome' = [outcome EXCEPT ![i] = res.outcome]
       /\ effects' = [effects EXCEPT ![i] = res.effects]
       /\ pc' = [pc EXCEPT ![i] = AfterCall(res.outcome)]
  /\ UNCHANGED <<route, config, devMode, emitted, delivered>>

\* The host router calls the guard for navigation attempt i; the flag service
\* would answer svc.
CanMatch(i) ==
  /\ pc[i] = "idle"
  /\ \E svc \in ServiceResults :
       LET res == canMatchFeatureFlag(route, config, devMode, svc) IN
       /\ service' = [service EXCEPT ![i] = svc]
       /\ outcome' = [outcome EXCEPT ![i] = res.outcome]
       /\ effects' = [effects EXCEPT ![i] = res.effects]
       /\ pc' = [pc EXCEPT ![i] = AfterCall(res.outcome)]
  /\ UNCHANGED <<route, config, devMode, emitted, delivered>>

\* The flag service's Promise resolves with b; the continuations attached to
\* the Promise the guard returned run.
Resolve(i) ==
  /\ pc[i] = "pending"
  /\ IsPromise(outcome[i].value)
  /\ \E b \in BOOLEAN :
       /\ emitted' = [emitted EXCEPT ![i] = Append(@, Bool(b))]
       /\ delivered' = [delivered EXCEPT ![i] =
            Append(@, RunContinuations(outcome[i].value.then, Bool(b)))]
  /\ pc' = [pc EXCEPT ![i] = "completed"]
  /\ UNCHANGED <<route, config, devMode, service, outcome, effects>>

\* The flag service's Observable emits b.
Emit(i) ==
  /\ pc[i] = "pending"
  /\ IsObservable(outcome[i].value)
  /\ Len(emitted[i]) < MaxEmissions
  /\ \E b \in BOOLEAN :
       /\ emitted' = [emitted EXCEPT ![i] = Append(@, Bool(b))]
       /\ delivered' = [delivered EXCEPT ![i] =
            Append(@, RunContinuations(outcome[i].value.then, Bool(b)))]
  /\ UNCHANGED <<route, config, devMode, pc, service, outcome, effects>>

\* The flag service's Observable completes.
Complete(i) ==
  /\ pc[i] = "pending"
  /\ IsObservable(outcome[i].value)
  /\ pc' = [pc EXCEPT ![i] = "completed"]
  /\ UNCHANGED <<route, config, devMode, service, outcome, effects, emitted, delivered>>

\* The host router is done with navigation attempt i (or abandons it while
\* it is pending); nothing of it is kept.
Release(i) ==
  /\ pc[i] # "idle"
  /\ pc' = [pc EXCEPT ![i] = "idle"]
  /\ service' = [service EXCEPT ![i] = Undefined]
  /\ outcome' = [outcome EXCEPT ![i] = NoOutcome]
  /\ effects' = [effects EXCEPT ![i] = <<>>]
  /\ emitted' = [emitted EXCEPT ![i] = <<>>]
  /\ delivered' = [delivered EXCEPT ![i] = <<>>]
  /\ UNCHANGED <<route, config, devMode>>

Next ==
  \E i \in Invocations :
    \/ CanMatch(i)
    \/ Resolve(i)
    \/ Emit(i)
    \/ Complete(i)
    \/ Release(i)

Spec == Init /\ [][Next]_vars

\* ------------------------------------------------------------ properties
\* What the route and the configuration declare.
FlagValue == DataAt(route, config.routing.keys.featureFlag)
NoFlagDeclared == ~Truthy(FlagValue)
InvalidFlagDeclared == Truthy(FlagValue) /\ ~isFeatureFlag(FlagValue)
ValidFlagDeclared == Truthy(FlagValue) /\ isFeatureFlag(FlagValue)
RouteTarget == DataAt(route, config.routing.keys.redirectToIfDisabled)
ConfigTarget == config.routing.redirectToIfDisabled
RedirectConfigured == Truthy(RouteTarget) \/ Truthy(ConfigTarget)
ChosenTarget == IF Truthy(RouteTarget) THEN RouteTarget ELSE ConfigTarget

Called(i) == pc[i] # "idle"
Fns(i) == [k \in 1..Len(effects[i]) |-> effects[i][k].fn]
IsCollaboratorCall(fn) == fn \in {"isEnabled", "parseUrl"}
Calls(i) == SelectSeq(Fns(i), IsCollaboratorCall)
Warnings(i) == {k \in 1..Len(effects[i]) : effects[i][k].fn = "console.warn"}
Mentions(parts, word) == \E k \in 1..Len(parts) : parts[k] = word
UnhandledShape(v) == v.t \notin {"boolean", "Promise", "Observable"}
IsUrlTree(v) == v.t = "UrlTree"

\* C1: a route with no feature flag, or a falsy one, gets exactly validIfNone,
\* synchronously, and neither isEnabled nor parseUrl is called, whatever the
\* flag service would have answered and whatever redirect is configured.
C1_NoFlagGivesValidIfNone ==
  \A i \in Invocations :
    Called(i) /\ NoFlagDeclared =>
      /\ pc[i] = "returned"
      /\ outcome[i] = Return(Bool(config.routing.validIfNone))
      /\ Calls(i) = <<>>
      /\ delivered[i] = <<>>

C1_Witness ==
  \E i, j \in Invocations :
    /\ i # j /\ Called(i) /\ Called(j)
    /\ FlagValue \in {Str(""), Num(0), Null, Bool(FALSE)}
    /\ ~config.routing.validIfNone
    /\ RedirectConfigured
    /\ service[i] = Bool(TRUE)
    /\ service[j] = ServicePromise

\* C2: a route whose flag value is truthy but not a feature flag makes the
\* guard throw, synchronously, an error whose message names the route's path
\* and the value, before isEnabled or parseUrl is called; there is no decision.
C2_InvalidFlagThrows ==
  \A i \in Invocations :
    Called(i) /\ InvalidFlagDeclared =>
      /\ pc[i] = "threw"
      /\ outcome[i].kind = "throw"
      /\ Mentions(outcome[i].message, route.path)
      /\ Mentions(outcome[i].message, JSString(FlagValue))
      /\ outcome[i].message # UnhandledMessage
      /\ effects[i] = <<>>
      /\ delivered[i] = <<>>

C2_Witness ==
  \E i \in Invocations :
    /\ pc[i] = "threw"
    /\ FlagValue = Str("xyz")
    /\ RedirectConfigured
    /\ service[i] = Bool(TRUE)

\* C3: with a valid flag, an isEnabled result that is neither a boolean, a
\* Promise nor an Observable always makes the guard throw the unhandled
\* return type error, whether or not a redirect is configured.
C3_UnhandledShapeAlwaysThrows ==
  \A i \in Invocations :
    Called(i) /\ ValidFlagDeclared /\ UnhandledShape(service[i]) =>
      outcome[i] = Throw(UnhandledMessage)

\* C4: with a valid flag and no redirect configured, the decision is the very
\* value isEnabled returned, the values it later produces reach the router
\* unchanged, and parseUrl is not called.
C4_NoRedirectPassesThrough ==
  \A i \in Invocations :
    Called(i) /\ ValidFlagDeclared /\ ~RedirectConfigured =>
      /\ outcome[i] = Return(service[i])
      /\ Calls(i) = <<"isEnabled">>
      /\ delivered[i] = emitted[i]

C4_Witness ==
  \E i, j \in Invocations :
    /\ ValidFlagDeclared /\ ~RedirectConfigured
    /\ service[i] = ServicePromise /\ emitted[i] = <<Bool(FALSE)>>
    /\ service[j] = Bool(FALSE) /\ pc[j] = "returned"

\* C5: with a valid flag and a redirect configured, true stays true and false
\* becomes the redirect's UrlTree, in the shape isEnabled answered in: a
\* boolean gives a value at once, a Promise gives a Promise and an Observable
\* an Observable that produce the substituted values; false is never the
\* decision.
C5_Substituted(b, v) == IF b THEN v = Bool(TRUE) ELSE IsUrlTree(v)

C5_RedirectSubstitutes ==
  \A i \in Invocations :
    Called(i) /\ ValidFlagDeclared /\ RedirectConfigured =>
      /\ IsBoolean(service[i]) =>
           /\ pc[i] = "returned"
           /\ outcome[i].kind = "return"
           /\ C5_Substituted(service[i].b, outcome[i].value)
      /\ IsPromise(service[i]) \/ IsObservable(service[i]) =>
           /\ pc[i] \in {"pending", "completed"}
           /\ outcome[i].kind = "return"
           /\ outcome[i].value.t = service[i].t
           /\ Len(delivered[i]) = Len(emitted[i])
           /\ \A k \in 1..Len(emitted[i]) :
                C5_Substituted(emitted[i][k].b, delivered[i][k])
      /\ outcome[i] # Return(Bool(FALSE))
      /\ \A k \in 1..Len(delivered[i]) : delivered[i][k] # Bool(FALSE)

C5_Witness ==
  \E i, j \in Invocations :
    /\ ValidFlagDeclared /\ RedirectConfigured
    /\ service[i] = ServicePromise /\ emitted[i] = <<Bool(FALSE)>>
    /\ IsUrlTree(delivered[i][1])
    /\ service[j] = ServiceObservable /\ emitted[j] = <<Bool(TRUE)>>

\* C6: with a valid flag, the target given to parseUrl is the route's own
\* redirect value when that is truthy, also when the configuration has one,
\* and the configuration's only otherwise; when the flag is false the
\* decision is the UrlTree parseUrl gives for that target.
C6_RouteRedirectFirst ==
  \A i \in Invocations :
    Called(i) /\ ValidFlagDeclared /\ RedirectConfigured =>
      /\ \E k \in 1..Len(effects[i]) : effects[i][k].fn = "parseUrl"
      /\ \A k \in 1..Len(effects[i]) :
           effects[i][k].fn = "parseUrl" => effects[i][k].url = ChosenTarget
      /\ service[i] = Bool(FALSE) => outcome[i] = Return(parseUrl(ChosenTarget))
      /\ \A k \in 1..Len(emitted[i]) :
           emitted[i][k] = Bool(FALSE) => delivered[i][k] = parseUrl(ChosenTarget)

C6_Witness ==
  \E i \in Invocations :
    /\ ValidFlagDeclared
    /\ RouteTarget = Str("/upgrade") /\ ConfigTarget = Str("/home")
    /\ service[i] = ServicePromise /\ emitted[i] = <<Bool(FALSE)>>
    /\ delivered[i] = <<[t |-> "UrlTree", segments |-> <<"upgrade">>]>>

\* C7: the warning is written exactly when the route declares no feature
\* flag, the build is a development build and validIfNone is false; it names
\* the route's path, and the decision is validIfNone with or without it.
C7_WarningOnlyInDevMode ==
  \A i \in Invocations :
    Called(i) =>
      /\ Warnings(i) # {} <=>
           (NoFlagDeclared /\ devMode /\ ~config.routing.validIfNone)
      /\ Cardinality(Warnings(i)) <= 1
      /\ \A k \in Warnings(i) : Mentions(effects[i][k].text, route.path)
      /\ NoFlagDeclared => outcome[i] = Return(Bool(config.routing.validIfNone))

C7_Witness ==
  \E i \in Invocations :
    /\ Called(i) /\ NoFlagDeclared /\ devMode
    /\ Warnings(i) = {1}
    /\ outcome[i] = Return(Bool(FALSE))

\* C8: no step of the guard changes the route or the configuration, on any
\* branch, the two throwing ones included.
C8_RouteAndConfigUntouched ==
  [][route' = route /\ config' = config]_vars

C8_Witness ==
  \E i, j \in Invocations :
    /\ pc[i] = "threw" /\ pc[j] = "completed"
    /\ Truthy(RouteTarget)

\* C9: two navigation attempts on the same route, configuration and build
\* mode, to which the flag service answers the same, have the same outcome
\* and the same effects, and produce the same values for the same values of
\* the flag service, whatever was interleaved with them.
C9_SameInputsSameOutcome ==
  \A i, j \in Invocations :
    Called(i) /\ Called(j) /\ service[i] = service[j] =>
      /\ outcome[i] = outcome[j]
      /\ effects[i] = effects[j]
      /\ \A k \in 1..Len(emitted[i]) :
           k <= Len(emitted[j]) /\ emitted[i][k] = emitted[j][k] =>
             delivered[i][k] = delivered[j][k]

C9_Witness ==
  \E i, j \in Invocations :
    /\ i # j
    /\ ValidFlagDeclared /\ RedirectConfigured
    /\ service[i] = ServicePromise /\ service[j] = ServicePromise
    /\ pc[i] = "completed" /\ pc[j] = "completed"
    /\ emitted[i] = emitted[j]

\* C10: the collaborator calls of one invocation are none (no flag, or an
\* invalid one), isEnabled alone (valid flag, no redirect), or isEnabled then
\* parseUrl (valid flag, redirect configured): parseUrl is called whatever
\* isEnabled answered, before a Promise or Observable has produced anything
\* and before an unhandled shape is rejected.
C10_CollaboratorCallOrder ==
  \A i \in Invocations :
    Called(i) =>
      Calls(i) = IF ~ValidFlagDeclared THEN <<>>
                 ELSE IF ~RedirectConfigured THEN <<"isEnabled">>
                 ELSE <<"isEnabled", "parseUrl">>

C10_Witness ==
  \E i, j \in Invocations :
    /\ pc[i] = "threw" /\ outcome[i] = Throw(UnhandledMessage)
    /\ Calls(i) = <<"isEnabled", "parseUrl">>
    /\ pc[j] = "pending" /\ emitted[j] = <<>>
    /\ Calls(j) = <<"isEnabled", "parseUrl">>

====
